---- MODULE Spec2Model ----
(***************************************************************************)
(* A model of SAC_MuJoCo.py: the replay buffer (ReplayMemoryBuffer), the   *)
(* SAC agent (SAC.__init__, SAC.update under @tf.function) and the         *)
(* training loop (train).                                                  *)
(*                                                                         *)
(* Abstractions.                                                           *)
(*  - A float is a record [fin, v]: a finite value v, or NaN (fin = FALSE).*)
(*    Arithmetic propagates NaN as IEEE-754 does; Inf is not told apart    *)
(*    from NaN.                                                            *)
(*  - A network (QValue, PolicyPi) owns one scalar parameter w. A Keras    *)
(*    model that was never called has no variables at all (built = FALSE); *)
(*    its first call creates them with a random initializer.               *)
(*  - An observation is an integer label; the environment hands out        *)
(*    labels 1, 2, 3, ... so that every observation is distinct.           *)
(*  - The Adam step is the framework's: its result is a finite weight, or  *)
(*    NaN (overflow), and NaN whenever the loss is NaN.                    *)
(***************************************************************************)
EXTENDS Integers, Sequences, FiniteSets, TLC

VARIABLES
    \* ReplayMemoryBuffer
    max_size, counter, pointer, frames, actions, rewards, terminal,
    written,        \* history: the slots some store call has written
    nstores,        \* history: the number of store calls so far
    batch,          \* the value sample_batch last returned (update's local `batch`)
    \* SAC
    polyak,         \* the polyak coefficient, in units of 1/PolyakDen
    Q1, Q2, Q1_target, Q2_target, pi,
    traced,         \* @tf.function: batch_size -> the batch frozen into its graph
    upc,            \* the position inside update ("idle" outside of it)
    loc,            \* update's other locals
    ncalls,         \* history: the number of update calls so far
    nblends,        \* history: the number of target synchronizations so far
    \* train
    tpc,            \* the position inside train
    env_t,          \* the environment: the label of the last observation it gave
    init_steps_counter, episode, total_time_steps, current_episode_time_steps,
    observation, done

bufVars == <<max_size, counter, pointer, frames, actions, rewards, terminal, written, nstores>>
netVars == <<Q1, Q2, Q1_target, Q2_target, pi>>
agentVars == <<polyak, netVars, traced, upc, loc, ncalls, nblends>>
trainVars == <<tpc, env_t, init_steps_counter, episode, total_time_steps,
               current_episode_time_steps, observation, done>>
vars == <<bufVars, batch, agentVars, trainVars>>

(***************************************************************************)
(* Bounds of the model                                                     *)
(***************************************************************************)
MaxSizeBound == 3       \* largest buffer capacity explored
MaxStores == 7          \* store calls explored by the buffer harness
MaxSampleSize == 2      \* largest batch_size the buffer harness asks for
BatchSizeBound == 1     \* largest batch_size update is called with
PolyakDen == 2          \* polyak takes the values 0/PolyakDen .. PolyakDen/PolyakDen
MaxUpdates == 2         \* update calls explored by the agent harness
MaxAgentStores == 4     \* store calls explored by the agent harness
InitStepsBound == 2     \* train's init_steps (10000), scaled
NumEpisodesBound == 1   \* train's num_episodes (1000), scaled
EpisodeStepsBound == 2  \* train's max_num_steps_per_episode (4000), scaled

(***************************************************************************)
(* Floats                                                                  *)
(***************************************************************************)
NaN == [fin |-> FALSE, v |-> 0]
F(x) == [fin |-> TRUE, v |-> x]

Max(a, b) == IF a >= b THEN a ELSE b
Min(a, b) == IF a <= b THEN a ELSE b

FAdd(x, y) == IF x.fin /\ y.fin THEN F(x.v + y.v) ELSE NaN
FSub(x, y) == IF x.fin /\ y.fin THEN F(x.v - y.v) ELSE NaN
FMul(x, y) == IF x.fin /\ y.fin THEN F(x.v * y.v) ELSE NaN
FNeg(x) == IF x.fin THEN F(0 - x.v) ELSE NaN
\* Comparisons with NaN are false.
FLe(x, y) == x.fin /\ y.fin /\ x.v <= y.v
FEq(x, y) == x.fin /\ y.fin /\ x.v = y.v
\* tf.minimum: elementwise minimum; NaN if either argument is NaN.
tf_minimum(x, y) == IF x.fin /\ y.fin THEN F(Min(x.v, y.v)) ELSE NaN
\* tf.tanh on the integer grid: the value clipped to [-1, 1].
tf_tanh(x) == IF x.fin THEN F(Max(-1, Min(1, x.v))) ELSE NaN

RECURSIVE SumFrom(_, _)
SumFrom(xs, k) == IF k > Len(xs) THEN F(0) ELSE FAdd(xs[k], SumFrom(xs, k + 1))
\* tf.reduce_sum over the batch.
reduce_sum(xs) == SumFrom(xs, 1)

(***************************************************************************)
(* Inputs                                                                  *)
(***************************************************************************)
\* What the environment and the action source can hand to store: the
\* action, the reward and the terminal flag of one step.
Steps == {[a |-> F(0), r |-> F(1), d |-> FALSE], [a |-> F(1), r |-> F(0), d |-> TRUE]}
Garbage == {0, -1}      \* what an np.empty slot may hold
Xi == {0, 1}            \* the draws of tf.random.normal
InitWeights == {F(0), F(1)}         \* what a layer's random initializer yields
\* What an Adam step on a finite loss yields: a finite weight (one grid value
\* stands for it; no claim depends on which), or NaN when the step overflows.
StepWeights == {F(0), NaN}

(***************************************************************************)
(* ReplayMemoryBuffer                                                      *)
(***************************************************************************)
\* __init__(size, ...): counter = pointer = 0, four np.empty arrays.
BufferInit(size) ==
    /\ max_size = size
    /\ counter = 0
    /\ pointer = 0
    /\ frames = [i \in 0..(size - 1) |-> 0]
    /\ actions = [i \in 0..(size - 1) |-> F(0)]
    /\ rewards = [i \in 0..(size - 1) |-> F(0)]
    /\ terminal = [i \in 0..(size - 1) |-> FALSE]
    /\ written = {}
    /\ nstores = 0

\* store with a counter that does not saturate at the capacity.
store_unsaturated(frame, action, reward, term) ==
    /\ frames' = [frames EXCEPT ![pointer] = frame]
    /\ actions' = [actions EXCEPT ![pointer] = action]
    /\ rewards' = [rewards EXCEPT ![pointer] = reward]
    /\ terminal' = [terminal EXCEPT ![pointer] = term]
    /\ counter' = counter + 1
    /\ pointer' = (pointer + 1) % max_size
    /\ written' = written \cup {pointer}
    /\ nstores' = nstores + 1
    /\ UNCHANGED max_size

\* store(frame, action, reward, terminal)
store(frame, action, reward, term) ==
    /\ frames' = [frames EXCEPT ![pointer] = frame]
    /\ actions' = [actions EXCEPT ![pointer] = action]
    /\ rewards' = [rewards EXCEPT ![pointer] = reward]
    /\ terminal' = [terminal EXCEPT ![pointer] = term]
    /\ counter' = Max(counter, pointer + 1)
    /\ pointer' = (pointer + 1) % max_size
    /\ written' = written \cup {pointer}
    /\ nstores' = nstores + 1
    /\ UNCHANGED max_size

\* randint with an inclusive upper end, as Python's random.randint has.
randint_inclusive(low, high, size) ==
    IF low > high THEN {} ELSE [1..size -> low..high]

\* np.random.randint(low, high, size): `size` independent draws from
\* [low, high); raises ValueError when low >= high (the empty set here).
randint(low, high, size) ==
    IF low >= high THEN {} ELSE [1..size -> low..(high - 1)]

\* A high bound that leaves the last valid slot drawable.
sample_high_counter == counter

\* The high bound sample_batch passes to randint.
sample_high == counter - 1

NoBatch == [raised |-> FALSE, indexes |-> <<>>, rows |-> <<>>, at |-> 0]
Raised == [raised |-> TRUE, indexes |-> <<>>, rows |-> <<>>, at |-> 0]

\* One row of the batch dict: s, a, r, d read at i and s2 read at i + 1.
\* g is what the read of a never-written slot yields.
BatchRow(i, g) ==
    [s |-> frames[i], a |-> actions[i], r |-> rewards[i],
     s2 |-> IF (i + 1) \in written THEN frames[i + 1] ELSE g,
     d |-> terminal[i]]

\* sample_batch(batch_size): every value the call can produce. `indexes`
\* and `at` (the store count at the draw) are history fields.
sample_batch(batch_size) ==
    LET draws == randint(0, sample_high, batch_size) IN
    IF draws = {} THEN {Raised}
    ELSE UNION { IF \E k \in 1..batch_size : ix[k] + 1 >= max_size
                 THEN {Raised}      \* IndexError: frames[indexes + 1]
                 ELSE { [raised |-> FALSE, indexes |-> ix,
                         rows |-> [k \in 1..batch_size |-> BatchRow(ix[k], g[k])],
                         at |-> nstores] : g \in [1..batch_size -> Garbage] }
               : ix \in draws }

\* No train is running (the harnesses below call the objects directly).
TrainIdle ==
    /\ tpc = "none"
    /\ env_t = 0
    /\ init_steps_counter = 0
    /\ episode = 0
    /\ total_time_steps = 0
    /\ current_episode_time_steps = 0
    /\ observation = 0
    /\ done = FALSE

(***************************************************************************)
(* QValue and PolicyPi                                                     *)
(***************************************************************************)
\* A model object whose layers were never called: it owns no variables.
Unbuilt == [built |-> FALSE, w |-> F(0)]

\* Model.get_weights(): the list of the variables' values.
get_weights(net) == IF net.built THEN <<net.w>> ELSE <<>>

\* Model.set_weights(ws): assigns the list to the variables, one for one (a
\* list of another length raises ValueError; the constructor never passes one).
set_weights(net, ws) == IF Len(ws) = 0 THEN net ELSE [net EXCEPT !.w = ws[1]]

\* The weights a call of the model finds, or creates if it was never called.
WeightsAtCall(net) == IF net.built THEN {net.w} ELSE InitWeights
Built(w) == [built |-> TRUE, w |-> w]

\* QValue.call(state, action): one linear unit over concat(state, action).
QValue_call(net, state, action) == FAdd(FMul(net.w, F(state)), action)

\* PolicyPi.sample_action(state) with the noise xi: mu = w * state and
\* std = exp(clipped log_std), taken as 1.
sample_action(net, state, xi) ==
    LET mu == FMul(net.w, F(state))
        std == F(1)
        a_bar == FAdd(mu, FMul(std, F(xi)))
        action == tf_tanh(a_bar)
        z == FSub(a_bar, mu)
        log_gaussian == FNeg(FMul(z, z))
        log_squash == FNeg(FMul(action, action))
    IN [action |-> action, log_prob |-> FSub(log_gaussian, log_squash)]

\* optimizer.apply_gradients for the gradient of `loss`: the weights the step
\* can leave. A NaN loss has a NaN gradient, and Adam then writes NaN.
apply_gradients(net, loss) ==
    IF loss.fin /\ net.w.fin THEN {Built(w) : w \in StepWeights} ELSE {Built(NaN)}

(***************************************************************************)
(* SAC                                                                     *)
(***************************************************************************)
SAC_buffer_size == MaxSizeBound     \* ReplayMemoryBuffer(1000000, ...), scaled
gamma == F(1)                       \* 0.99 on the integer grid
alpha == F(1)                       \* 0.2 on the integer grid

NoLocals ==
    [batch_size |-> 0, a2 |-> <<>>, lpi2 |-> <<>>,
     q_1_target_v |-> <<>>, q_2_target_v |-> <<>>, compare_q_target |-> <<>>,
     y |-> <<>>, q_1_loss |-> F(0), q_2_loss |-> F(0),
     a1 |-> <<>>, lpi1 |-> <<>>, q_1_a1_v |-> <<>>, q_2_a1_v |-> <<>>,
     pi_loss |-> F(0),
     q_pre |-> <<>>,       \* history: the online critics' weights before their step
     tgt_pre |-> <<>>]     \* history: the target critics' weights before the blend

\* SAC.__init__(..., polyak = p / PolyakDen)
AgentInit(p) ==
    /\ BufferInit(SAC_buffer_size)
    /\ batch = NoBatch
    /\ polyak = p
    /\ Q1 = Unbuilt
    /\ Q2 = Unbuilt
    /\ pi = Unbuilt
    /\ Q1_target = set_weights(Unbuilt, get_weights(Q1))
    /\ Q2_target = set_weights(Unbuilt, get_weights(Q2))
    /\ traced = [n \in 1..BatchSizeBound |-> NoBatch]
    /\ upc = "idle"
    /\ loc = NoLocals
    /\ ncalls = 0
    /\ nblends = 0

\* A caller enters update(batch_size).
update_call(batch_size) ==
    /\ upc = "idle"
    /\ upc' = "sample"
    /\ loc' = [NoLocals EXCEPT !.batch_size = batch_size]
    /\ ncalls' = ncalls + 1
    /\ UNCHANGED <<polyak, netVars, traced, nblends, batch>>

\* The batch a call of update works on. update is a tf.function: its Python
\* body, and with it sample_batch's numpy code, runs only when the function
\* is traced, once per distinct batch_size (the first call may trace twice,
\* in the same buffer state); the arrays it returns become constants of the
\* graph, which every later call with that batch_size runs.
update_batch(batch_size) ==
    IF traced[batch_size] = NoBatch THEN sample_batch(batch_size)
    ELSE {traced[batch_size]}

\* update: batch = self.replayMemoryBuffer.sample_batch(batch_size)
U_sample ==
    /\ upc = "sample"
    /\ \E b \in update_batch(loc.batch_size) :
          /\ batch' = b
          /\ IF b.raised
             THEN upc' = "raised" /\ UNCHANGED traced
             ELSE upc' = "target" /\ traced' = [traced EXCEPT ![loc.batch_size] = b]
    /\ UNCHANGED <<trainVars, bufVars, polyak, netVars, loc, ncalls, nblends>>

Rows == DOMAIN batch.rows

\* update: the bootstrap target y
U_target ==
    /\ upc = "target"
    /\ \E xi \in [Rows -> Xi], wp \in WeightsAtCall(pi),
          w1 \in WeightsAtCall(Q1_target), w2 \in WeightsAtCall(Q2_target) :
          LET s2(k) == batch.rows[k].s2
              smp == [k \in Rows |-> sample_action(Built(wp), s2(k), xi[k])]
              a2 == [k \in Rows |-> smp[k].action]
              lpi2 == [k \in Rows |-> smp[k].log_prob]
              q_1_target_v == [k \in Rows |-> QValue_call(Built(w1), s2(k), a2[k])]
              q_2_target_v == [k \in Rows |-> QValue_call(Built(w2), s2(k), a2[k])]
              compare_q_target ==
                  [k \in Rows |-> tf_minimum(q_1_target_v[k], q_2_target_v[k])]
              notdone(k) == IF batch.rows[k].d THEN F(0) ELSE F(1)
              y == [k \in Rows |->
                      FAdd(batch.rows[k].r,
                           FMul(FMul(gamma, notdone(k)),
                                FSub(compare_q_target[k], FMul(alpha, lpi2[k]))))]
          IN /\ pi' = Built(wp)
             /\ Q1_target' = Built(w1)
             /\ Q2_target' = Built(w2)
             /\ loc' = [loc EXCEPT !.a2 = a2, !.lpi2 = lpi2,
                                   !.q_1_target_v = q_1_target_v,
                                   !.q_2_target_v = q_2_target_v,
                                   !.compare_q_target = compare_q_target, !.y = y]
    /\ upc' = "critic_loss"
    /\ UNCHANGED <<trainVars, bufVars, batch, polyak, Q1, Q2, traced, ncalls, nblends>>

\* The sum over the batch of the squared errors of the estimates q_v against y.
squared_error(q_v, y) ==
    reduce_sum([k \in DOMAIN q_v |-> FMul(FSub(q_v[k], y[k]), FSub(q_v[k], y[k]))])

\* update: q_1_loss, q_2_loss
U_critic_loss ==
    /\ upc = "critic_loss"
    /\ \E w1 \in WeightsAtCall(Q1), w2 \in WeightsAtCall(Q2) :
          LET q_1_v == [k \in Rows |-> QValue_call(Built(w1), batch.rows[k].s, batch.rows[k].a)]
              q_2_v == [k \in Rows |-> QValue_call(Built(w2), batch.rows[k].s, batch.rows[k].a)]
          IN /\ Q1' = Built(w1)
             /\ Q2' = Built(w2)
             /\ loc' = [loc EXCEPT !.q_1_loss = squared_error(q_1_v, loc.y),
                                   !.q_2_loss = squared_error(q_2_v, loc.y),
                                   \* no later line reads these
                                   !.a2 = <<>>, !.lpi2 = <<>>, !.q_1_target_v = <<>>,
                                   !.q_2_target_v = <<>>, !.compare_q_target = <<>>,
                                   !.y = <<>>]
    /\ upc' = "critic_step"
    /\ UNCHANGED <<trainVars, bufVars, batch, polyak, Q1_target, Q2_target, pi, traced, ncalls, nblends>>

\* update: the two critic optimizer steps
U_critic_step ==
    /\ upc = "critic_step"
    /\ Q1' \in apply_gradients(Q1, loc.q_1_loss)
    /\ Q2' \in apply_gradients(Q2, loc.q_2_loss)
    /\ loc' = [loc EXCEPT !.q_pre = <<Q1.w, Q2.w>>]
    /\ upc' = "policy"
    /\ UNCHANGED <<trainVars, bufVars, batch, polyak, Q1_target, Q2_target, pi, traced, ncalls, nblends>>

\* U_policy with the online critics read as they were before their step.
U_policy_stale ==
    /\ upc = "policy"
    /\ \E xi \in [Rows -> Xi] :
          LET s(k) == batch.rows[k].s
              smp == [k \in Rows |-> sample_action(pi, s(k), xi[k])]
              a1 == [k \in Rows |-> smp[k].action]
              lpi1 == [k \in Rows |-> smp[k].log_prob]
              q_1_a1_v == [k \in Rows |-> QValue_call(Built(loc.q_pre[1]), s(k), a1[k])]
              q_2_a1_v == [k \in Rows |-> QValue_call(Built(loc.q_pre[2]), s(k), a1[k])]
              compare_q_a1_v == [k \in Rows |-> tf_minimum(q_1_a1_v[k], q_2_a1_v[k])]
              pi_loss == FNeg(reduce_sum([k \in Rows |->
                             FSub(compare_q_a1_v[k], FMul(alpha, lpi1[k]))]))
          IN /\ loc' = [loc EXCEPT !.a1 = a1, !.lpi1 = lpi1, !.q_1_a1_v = q_1_a1_v,
                                   !.q_2_a1_v = q_2_a1_v, !.pi_loss = pi_loss]
             /\ pi' \in apply_gradients(pi, pi_loss)
    /\ upc' = "sync"
    /\ UNCHANGED <<trainVars, bufVars, batch, polyak, Q1, Q2, Q1_target, Q2_target, traced, ncalls, nblends>>

\* update: pi_loss from the online critics, and the policy optimizer step
U_policy ==
    /\ upc = "policy"
    /\ \E xi \in [Rows -> Xi] :
          LET s(k) == batch.rows[k].s
              smp == [k \in Rows |-> sample_action(pi, s(k), xi[k])]
              a1 == [k \in Rows |-> smp[k].action]
              lpi1 == [k \in Rows |-> smp[k].log_prob]
              q_1_a1_v == [k \in Rows |-> QValue_call(Q1, s(k), a1[k])]
              q_2_a1_v == [k \in Rows |-> QValue_call(Q2, s(k), a1[k])]
              compare_q_a1_v == [k \in Rows |-> tf_minimum(q_1_a1_v[k], q_2_a1_v[k])]
              pi_loss == FNeg(reduce_sum([k \in Rows |->
                             FSub(compare_q_a1_v[k], FMul(alpha, lpi1[k]))]))
          IN /\ loc' = [loc EXCEPT !.a1 = a1, !.lpi1 = lpi1, !.q_1_a1_v = q_1_a1_v,
                                   !.q_2_a1_v = q_2_a1_v, !.pi_loss = pi_loss]
             /\ pi' \in apply_gradients(pi, pi_loss)
    /\ upc' = "sync"
    /\ UNCHANGED <<trainVars, bufVars, batch, polyak, Q1, Q2, Q1_target, Q2_target, traced, ncalls, nblends>>

\* new_phi = polyak * weight_target + (1 - polyak) * weight, rounded to the grid
polyak_blend(weight_target, weight) ==
    LET sum == FAdd(FMul(F(polyak), weight_target), FMul(F(PolyakDen - polyak), weight))
    IN IF sum.fin THEN F(sum.v \div PolyakDen) ELSE NaN

\* update: the target synchronization
U_sync ==
    /\ upc = "sync"
    /\ Q1_target' = Built(polyak_blend(Q1_target.w, Q1.w))
    /\ Q2_target' = Built(polyak_blend(Q2_target.w, Q2.w))
    /\ loc' = [loc EXCEPT !.tgt_pre = <<Q1_target.w, Q2_target.w>>,
                          \* no later line reads these
                          !.a1 = <<>>, !.lpi1 = <<>>, !.q_1_a1_v = <<>>,
                          !.q_2_a1_v = <<>>, !.q_pre = <<>>]
    /\ nblends' = nblends + 1
    /\ upc' = "return"
    /\ UNCHANGED <<trainVars, bufVars, batch, polyak, Q1, Q2, pi, traced, ncalls>>

\* update: return q_1_loss, q_2_loss, pi_loss (no caller keeps them)
U_return ==
    /\ upc = "return"
    /\ upc' = "idle"
    /\ loc' = NoLocals
    /\ batch' = NoBatch
    /\ UNCHANGED <<trainVars, bufVars, polyak, netVars, traced, ncalls, nblends>>

(***************************************************************************)
(* The agent on its own: any polyak, any caller                            *)
(***************************************************************************)
InitAgent == (\E p \in 0..PolyakDen : AgentInit(p)) /\ TrainIdle

AgentStore ==
    /\ upc = "idle"
    /\ nstores < MaxAgentStores
    /\ \E t \in Steps : store(nstores + 1, t.a, t.r, t.d)
    /\ UNCHANGED <<batch, agentVars, trainVars>>

AgentUpdate ==
    /\ ncalls < MaxUpdates
    /\ \E n \in 1..BatchSizeBound : update_call(n)
    /\ UNCHANGED <<bufVars, trainVars>>

NextAgent ==
    \/ AgentStore
    \/ AgentUpdate
    \/ U_sample \/ U_target \/ U_critic_loss \/ U_critic_step \/ U_policy \/ U_sync \/ U_return

SpecAgent == InitAgent /\ [][NextAgent]_vars

(***************************************************************************)
(* train(env)                                                              *)
(***************************************************************************)
init_steps == InitStepsBound
num_episodes == NumEpisodesBound
max_num_steps_per_episode == EpisodeStepsBound
update_period_timestep == 1
default_polyak == PolyakDen - 1         \* polyak=0.995: below 1, the nearest grid value
default_batch_size == BatchSizeBound    \* batch_size=256, scaled

\* agent = SAC(observation_shape, action_space_dim), and the counters
Init ==
    /\ AgentInit(default_polyak)
    /\ tpc = "prefill_test"
    /\ env_t = 0
    /\ init_steps_counter = 0
    /\ episode = 0
    /\ total_time_steps = 0
    /\ current_episode_time_steps = 0
    /\ observation = 0
    /\ done = FALSE

\* observation, _ = env.reset(); done = False
env_reset ==
    /\ env_t' = env_t + 1
    /\ observation' = env_t + 1
    /\ done' = FALSE

\* PrefillTest with the comparison turned around: the pre-fill never starts.
PrefillTest_skip ==
    /\ tpc = "prefill_test"
    /\ IF init_steps < init_steps_counter
       THEN env_reset /\ tpc' = "prefill_step"
       ELSE tpc' = "episode_for" /\ UNCHANGED <<env_t, observation, done>>
    /\ UNCHANGED <<bufVars, batch, agentVars, init_steps_counter, episode,
                   total_time_steps, current_episode_time_steps>>

\* while (init_steps > init_steps_counter): reset, or leave the pre-fill
PrefillTest ==
    /\ tpc = "prefill_test"
    /\ IF init_steps > init_steps_counter
       THEN env_reset /\ tpc' = "prefill_step"
       ELSE tpc' = "episode_for" /\ UNCHANGED <<env_t, observation, done>>
    /\ UNCHANGED <<bufVars, batch, agentVars, init_steps_counter, episode,
                   total_time_steps, current_episode_time_steps>>

\* One pass of the pre-fill's inner loop: a random action, env.step, store.
PrefillStep ==
    /\ tpc = "prefill_step"
    /\ \E t \in Steps :
          /\ store(observation, t.a, t.r, t.d)
          /\ done' = t.d
    /\ env_t' = env_t + 1
    /\ observation' = env_t + 1
    /\ init_steps_counter' = init_steps_counter + 1
    /\ tpc' = IF init_steps <= init_steps_counter' \/ done' THEN "prefill_test"
              ELSE "prefill_step"
    /\ UNCHANGED <<batch, agentVars, episode, total_time_steps, current_episode_time_steps>>

\* for episode in range(num_episodes): reset, or leave the loop
EpisodeFor ==
    /\ tpc = "episode_for"
    /\ IF episode < num_episodes
       THEN env_reset /\ tpc' = "main_step"
       ELSE tpc' = "close" /\ UNCHANGED <<env_t, observation, done>>
    /\ UNCHANGED <<bufVars, batch, agentVars, init_steps_counter, episode,
                   total_time_steps, current_episode_time_steps>>

\* One pass of the episode's loop up to the update test: the policy's
\* action, env.step, store, the counters.
MainStep ==
    /\ tpc = "main_step"
    /\ \E xi \in Xi, wp \in WeightsAtCall(pi), t \in Steps :
          LET action == sample_action(Built(wp), observation, xi).action
          IN /\ pi' = Built(wp)
             /\ store(observation, action, t.r, t.d)
             /\ done' = t.d
    /\ env_t' = env_t + 1
    /\ observation' = env_t + 1
    /\ total_time_steps' = total_time_steps + 1
    /\ current_episode_time_steps' = current_episode_time_steps + 1
    /\ tpc' = "update_test"
    /\ UNCHANGED <<batch, polyak, Q1, Q2, Q1_target, Q2_target, traced, upc, loc,
                   ncalls, nblends, init_steps_counter, episode>>

\* if (total_time_steps % update_period_timestep == 0): agent.update()
UpdateTest ==
    /\ tpc = "update_test"
    /\ IF total_time_steps % update_period_timestep = 0
       THEN update_call(default_batch_size)
       ELSE UNCHANGED <<batch, agentVars>>
    /\ tpc' = "episode_test"
    /\ UNCHANGED <<bufVars, env_t, init_steps_counter, episode, total_time_steps,
                   current_episode_time_steps, observation, done>>

\* After update returned: the break on the episode's length, the loop test,
\* and the lines after the loop.
EpisodeTest ==
    /\ tpc = "episode_test"
    /\ upc = "idle"
    /\ IF current_episode_time_steps >= max_num_steps_per_episode \/ done
       THEN /\ current_episode_time_steps' = 0
            /\ episode' = episode + 1
            /\ tpc' = "episode_for"
       ELSE /\ tpc' = "main_step"
            /\ UNCHANGED <<current_episode_time_steps, episode>>
    /\ UNCHANGED <<bufVars, batch, agentVars, env_t, init_steps_counter,
                   total_time_steps, observation, done>>

\* env.close(); return rewards
Close ==
    /\ tpc = "close"
    /\ tpc' = "returned"
    /\ UNCHANGED <<bufVars, batch, agentVars, env_t, init_steps_counter, episode,
                   total_time_steps, current_episode_time_steps, observation, done>>

Next ==
    \/ PrefillTest
    \/ PrefillStep
    \/ EpisodeFor
    \/ MainStep
    \/ UpdateTest
    \/ EpisodeTest
    \/ Close
    \/ U_sample \/ U_target \/ U_critic_loss \/ U_critic_step \/ U_policy \/ U_sync \/ U_return

Spec == Init /\ [][Next]_vars

(***************************************************************************)
(* The buffer on its own: any capacity, any sequence of calls              *)
(***************************************************************************)
InitBuffer ==
    /\ \E size \in 1..MaxSizeBound : BufferInit(size)
    /\ batch = NoBatch
    /\ polyak = 0
    /\ Q1 = Unbuilt /\ Q2 = Unbuilt /\ Q1_target = Unbuilt /\ Q2_target = Unbuilt
    /\ pi = Unbuilt
    /\ traced = [n \in 1..BatchSizeBound |-> NoBatch]
    /\ upc = "idle"
    /\ loc = NoLocals
    /\ ncalls = 0
    /\ nblends = 0
    /\ TrainIdle

\* A caller stores the next frame (labelled by its position in the sequence).
BufStore ==
    /\ nstores < MaxStores
    /\ \E t \in Steps : store(nstores + 1, t.a, t.r, t.d)
    /\ UNCHANGED <<batch, agentVars, trainVars>>

\* A caller samples a batch.
BufSample ==
    /\ \E n \in 1..MaxSampleSize : batch' \in sample_batch(n)
    /\ UNCHANGED <<bufVars, agentVars, trainVars>>

NextBuffer == BufStore \/ BufSample

SpecBuffer == InitBuffer /\ [][NextBuffer]_vars

(***************************************************************************)
(* Claims about the buffer                                                 *)
(***************************************************************************)
\* The labels held by the slots of the buffer.
Held == {frames[i] : i \in 0..(max_size - 1)}

\* C1: after k > C store calls on a fresh buffer of capacity C, counter = C,
\* pointer = k mod C, and the C slots hold exactly the C most recently stored
\* transitions (the k-th stored frame carries the label k).
C1_KeepsMostRecent ==
    nstores > max_size =>
        /\ counter = max_size
        /\ pointer = nstores % max_size
        /\ written = 0..(max_size - 1)
        /\ Held = (nstores - max_size + 1)..nstores

C1_Witness == max_size = 3 /\ nstores = 5 /\ pointer = 2

\* C2: a sample_batch call made with counter >= 2 does not raise, every index
\* it draws satisfies 0 <= i < counter - 1, and the next state it returns for
\* i is the content of slot i + 1, a slot inside the arrays that an earlier
\* store call has written.
C2_SampleReadsWritten ==
    [][(batch' /= batch /\ counter >= 2) =>
          /\ ~batch'.raised
          /\ \A k \in DOMAIN batch'.indexes :
                LET i == batch'.indexes[k] IN
                /\ 0 <= i /\ i < counter - 1
                /\ i + 1 < max_size
                /\ (i + 1) \in written
                /\ batch'.rows[k].s2 = frames[i + 1]]_vars

C2_Witness ==
    /\ ~batch.raised /\ Len(batch.indexes) = 2
    /\ batch.indexes[1] = counter - 2 /\ counter = max_size /\ batch.at = nstores

\* The indexes sample_batch can draw in the current state.
Drawable == IF sample_high <= 0 THEN {} ELSE 0..(sample_high - 1)

\* C10: for every drawable index i, slot i + 1 holds the frame of the store
\* call that immediately followed the one that wrote slot i, except for
\* i = pointer - 1 once the buffer has wrapped (counter = max_size and
\* pointer >= 1), where slot i + 1 holds the oldest stored frame.
C10_SuccessorSlot ==
    \A i \in Drawable :
        /\ (i + 1) \in written
        /\ IF counter = max_size /\ pointer >= 1 /\ i = pointer - 1
           THEN \A l \in Held : frames[i + 1] <= l
           ELSE frames[i + 1] = frames[i] + 1

C10_Witness ==
    /\ max_size = 3 /\ counter = 3 /\ pointer = 1 /\ nstores = 4
    /\ Drawable = {0, 1} /\ frames[1] = 2 /\ frames[0] = 4

(***************************************************************************)
(* Claims about the agent and train                                        *)
(***************************************************************************)
\* C3: every update call draws its own batch from the buffer as it stands at
\* that call: the batch the call works on was drawn at the current store count.
C3_DrawsOwnBatch == upc = "target" => batch.at = nstores

\* C4: when __init__ returns the target critics hold the same parameters as
\* their online counterparts, and they still do in the first update call, up
\* to the first optimizer step.
C4_TargetsStartAsCopies ==
    /\ ncalls = 0 =>
          /\ get_weights(Q1_target) = get_weights(Q1)
          /\ get_weights(Q2_target) = get_weights(Q2)
    /\ (ncalls = 1 /\ upc = "critic_step") =>
          /\ get_weights(Q1_target) = get_weights(Q1)
          /\ get_weights(Q2_target) = get_weights(Q2)

\* C5: with polyak = 1 no step changes a target critic's parameters; with
\* polyak = 0 the synchronization leaves every target parameter equal to the
\* online critic's parameter after that call's critic step.
C5_PolyakExtremes ==
    [][/\ (polyak = PolyakDen /\ Q1_target.built) => Q1_target' = Q1_target
       /\ (polyak = PolyakDen /\ Q2_target.built) => Q2_target' = Q2_target
       /\ (polyak = 0 /\ upc = "sync" /\ upc' = "return") =>
             (Q1_target'.w = Q1'.w /\ Q2_target'.w = Q2'.w)]_vars

\* C6: for every row of the batch, the value that enters the bootstrap target
\* is <= both target critics' estimates and equals one of them.
C6_MinOfTwo ==
    upc = "critic_loss" =>
        \A k \in DOMAIN loc.compare_q_target :
            /\ FLe(loc.compare_q_target[k], loc.q_1_target_v[k])
            /\ FLe(loc.compare_q_target[k], loc.q_2_target_v[k])
            /\ \/ FEq(loc.compare_q_target[k], loc.q_1_target_v[k])
               \/ FEq(loc.compare_q_target[k], loc.q_2_target_v[k])

AllFinite ==
    /\ loc.q_1_loss.fin /\ loc.q_2_loss.fin /\ loc.pi_loss.fin
    /\ Q1.w.fin /\ Q2.w.fin /\ pi.w.fin /\ Q1_target.w.fin /\ Q2_target.w.fin

\* C7: an update call in which a loss or a parameter became NaN does not go
\* on to synchronize the targets and return normally.
C7_FatalOnNaN == upc = "return" => AllFinite

\* C8: in train, an update call happens only after the complete pre-fill of
\* init_steps store calls, with at least 2 valid transitions in the buffer,
\* and sample_batch never raises.
C8_PrefillBeforeUpdate ==
    (upc /= "idle" \/ ncalls > 0) =>
        /\ init_steps_counter >= init_steps
        /\ nstores >= init_steps
        /\ counter >= 2
        /\ upc /= "raised"

C8_Witness == upc = "target" /\ ncalls = 1 /\ nstores = init_steps + 1

InUpdate == upc \in {"sample", "target", "critic_loss", "critic_step", "policy", "sync"}

\* C9: within an update call the critic steps come first, the policy loss is
\* evaluated with the critics as those steps left them, and the polyak blend
\* comes last, reads the critics as those steps left them, and runs exactly
\* once per call.
C9_UpdateOrder ==
    /\ upc = "sync" =>
          /\ loc.q_pre /= <<>>
          /\ \A k \in DOMAIN loc.a1 :
                /\ loc.q_1_a1_v[k] = QValue_call(Q1, batch.rows[k].s, loc.a1[k])
                /\ loc.q_2_a1_v[k] = QValue_call(Q2, batch.rows[k].s, loc.a1[k])
    /\ upc = "return" =>
          /\ Q1_target.w = polyak_blend(loc.tgt_pre[1], Q1.w)
          /\ Q2_target.w = polyak_blend(loc.tgt_pre[2], Q2.w)
    /\ InUpdate => nblends = ncalls - 1
    /\ upc \in {"return", "idle"} => nblends = ncalls

C9_Witness ==
    /\ upc = "return" /\ nblends = 1 /\ loc.q_1_loss.fin
    /\ loc.tgt_pre[1] = F(1) /\ Q1.w = F(0) /\ Q1_target.w = F(0)

====
